---------------------------- MODULE Spec2Model ----------------------------
(***************************************************************************)
(* The account meta-database of ethcore/src/state/meta_db.rs: a journal of *)
(* per-block deltas over a flat key-value store, with a per-address index  *)
(* of the blocks that touched the address.                                 *)
(*                                                                         *)
(* An Option<T> is a sequence: <<>> is None and <<x>> is Some(x).  A       *)
(* HashMap / BTreeMap is a function whose DOMAIN is the set of its keys.   *)
(***************************************************************************)
EXTENDS Integers, Sequences, FiniteSets, TLC

\* ------------------------------------------------------------------ bounds
\* Eras (block numbers) range over 0..MaxEra.
MaxEra == 2
\* Block hashes range over 0..MaxId; 0 is the genesis hash.
MaxId == 3
\* The unconstrained caller of SpecAny makes at most MaxCalls calls of
\* journal_under and mark_canonical, with hashes in 0..MaxAnyId.
MaxCalls == 3
MaxAnyId == 1
\* Changes the unconstrained caller holds at once.
MaxAnyChanges == 1
\* Changes held at once by the overlays and the journal's entries.
MaxChanges == 2

Eras == 0..MaxEra
Hashes == 0..MaxId
\* The genesis hash a caller hands to MetaDB::new (H256::default() in the test).
Genesis == 0
\* Account addresses.
Address == {1, 2}
\* The handles onto the journal: a MetaDB and its clone.
Stores == {1, 2}

None == <<>>
Some(x) == <<x>>
EmptyMap == <<>>

\* AccountMeta values.
Meta(n) ==
  [code_size |-> 0, code_hash |-> 0, storage_root |-> 0, balance |-> 0, nonce |-> n]
Metas == {Meta(1)}

\* ------------------------------------------------------------ map helpers
MapPut(map, k, v) == [x \in (DOMAIN map) \cup {k} |-> IF x = k THEN v ELSE map[x]]
MapRemove(map, k) == [x \in (DOMAIN map) \ {k} |-> map[x]]

\* The elements of a set of integers in ascending order (BTreeMap key order,
\* and the order chosen here for a HashMap's iteration).
RECURSIVE Ascending(_)
Ascending(S) ==
  IF S = {} THEN <<>>
  ELSE LET lo == CHOOSE x \in S : \A y \in S : x <= y
       IN <<lo>> \o Ascending(S \ {lo})

\* (era, hash) pairs ordered as Rust orders the tuple (u64, H256).
PairLess(p, q) == p[1] < q[1] \/ (p[1] = q[1] /\ p[2] < q[2])

\* A BTreeSet<(u64, H256)> iterated in reverse: greatest pair first.
RECURSIVE Descending(_)
Descending(S) ==
  IF S = {} THEN <<>>
  ELSE LET hi == CHOOSE p \in S : \A q \in S : q = p \/ PairLess(q, p)
       IN <<hi>> \o Descending(S \ {hi})

\* ------------------------------------------------------------- database keys
journal_key(era) == <<"journal_era", era>>
id_key(id) == <<"journal_id", id>>
addr_key(a) == <<"address", a>>
base_key == <<"base", 0>>

DbKeys ==
  {base_key} \cup {journal_key(e) : e \in Eras} \cup {id_key(h) : h \in Hashes}
    \cup {addr_key(a) : a \in Address}

\* Database::get: the value under a key, None for a key never written.
DbGet(d, key) == IF key \in DOMAIN d THEN d[key] ELSE None

BatchPut(key, value) == <<"put", key, value>>
BatchDelete(key) == <<"delete", key, None>>

\* Database::write: the operations of a transaction, applied in order.
RECURSIVE DbWrite(_, _)
DbWrite(d, ops) ==
  IF ops = <<>> THEN d
  ELSE LET op == Head(ops)
           d2 == IF op[1] = "put" THEN [d EXCEPT ![op[2]] = Some(op[3])]
                 ELSE [d EXCEPT ![op[2]] = None]
       IN DbWrite(d2, Tail(ops))

\* ---------------------------------------------------------------- encoding
EncodeMeta(m) == <<m.code_size, m.code_hash, m.storage_root, m.balance, m.nonce>>

DecodeMeta(r) ==
  [code_size |-> r[1], code_hash |-> r[2], storage_root |-> r[3],
   balance |-> r[4], nonce |-> r[5]]

EncodeEntry(e) ==
  LET addrs == Ascending(DOMAIN e.entries)
  IN <<e.parent,
       [i \in 1..Len(addrs) |->
          <<addrs[i],
            IF e.entries[addrs[i]] # None
              THEN <<TRUE, EncodeMeta(e.entries[addrs[i]][1])>>
              ELSE <<FALSE, <<>>>> >>]>>

RECURSIVE DecodeChanges(_, _)
DecodeChanges(list, acc) ==
  IF list = <<>> THEN acc
  ELSE LET item == Head(list)
           delta == IF item[2][1] THEN Some(DecodeMeta(item[2][2])) ELSE None
       IN DecodeChanges(Tail(list), MapPut(acc, item[1], delta))

DecodeEntry(r) == [parent |-> r[1], entries |-> DecodeChanges(r[2], EmptyMap)]

EncodeBase(b) == <<b[1], b[2]>>
DecodeBase(r) == <<r[1], r[2]>>

VARIABLES
  db,        \* the database column: DbKeys -> Option<value>
  journal,   \* the shared Journal: [entries, modifications, canon_base]
  overlay,   \* per store: the pending changes, Address -> Option<AccountMeta>
  batch,     \* per store: the caller's DBTransaction, not yet written
  used,      \* history: the hashes journalled so far
  discarded, \* history: the (era, hash) siblings dropped by mark_canonical
  pending,   \* history: per store, what its caller set or removed since its
             \* last journal_under
  calls      \* history: the calls made by the unconstrained caller

vars == <<db, journal, overlay, batch, used, discarded, pending, calls>>


\* ------------------------------------------------------------------ Journal
\* The hashes of the entries of one era, in BTreeMap key order.
CandidateHashes(j, era) ==
  Ascending({h \in Hashes : <<era, h>> \in DOMAIN j.entries})

\* modifications.entry(addr).or_insert_with(BTreeSet::new).insert(pair), for
\* every address of a set.
InsertModifications(mods, addrs, pair) ==
  [a \in (DOMAIN mods) \cup addrs |->
     IF a \in addrs
       THEN (IF a \in DOMAIN mods THEN mods[a] ELSE {}) \cup {pair}
       ELSE mods[a]]

\* The removal of one entry's pairs from the index: an address whose set
\* becomes empty leaves the map; an address the map does not hold is skipped.
RemoveModifications(mods, addrs, pair) ==
  LET dropped == {a \in (DOMAIN mods) \cap addrs : mods[a] \ {pair} = {}}
  IN [a \in (DOMAIN mods) \ dropped |->
        IF a \in addrs THEN mods[a] \ {pair} ELSE mods[a]]

\* One era's candidates read back: [ok, journal]; ok is FALSE when a listed
\* hash has no journal data (the expect of line 200 panics).
RECURSIVE ReadCandidates(_, _, _, _)
ReadCandidates(d, era, hashes, j) ==
  IF hashes = <<>> THEN [ok |-> TRUE, journal |-> j]
  ELSE LET hash == Head(hashes)
           journal_rlp == DbGet(d, id_key(hash))
       IN IF journal_rlp = None THEN [ok |-> FALSE, journal |-> j]
          ELSE LET entry == DecodeEntry(journal_rlp[1])
                   j2 == [j EXCEPT
                            !.modifications =
                               InsertModifications(@, DOMAIN entry.entries, <<era, hash>>),
                            !.entries = MapPut(@, <<era, hash>>, entry)]
               IN ReadCandidates(d, era, Tail(hashes), j2)

RECURSIVE ReadEras(_, _, _)
ReadEras(d, era, j) ==
  LET hashes == DbGet(d, journal_key(era))
  IN IF hashes = None THEN [ok |-> TRUE, journal |-> j]
     ELSE LET r == ReadCandidates(d, era, hashes[1], j)
          IN IF r.ok THEN ReadEras(d, era + 1, r.journal) ELSE r

\* read_from starting at the base's era instead of the era above it.
read_from_base_era(d, base) ==
  ReadEras(d, base[1],
           [entries |-> EmptyMap, modifications |-> EmptyMap, canon_base |-> base])

\* Journal::read_from.
read_from(d, base) ==
  ReadEras(d, base[1] + 1,
           [entries |-> EmptyMap, modifications |-> EmptyMap, canon_base |-> base])

\* write_era without its take_while: the list runs on into the later eras.
write_era_unbounded(j, era) ==
  BatchPut(journal_key(era),
           Ascending({h \in Hashes :
                        \E e \in Eras : e >= era /\ <<e, h>> \in DOMAIN j.entries}))

\* Journal::write_era: the put of one era's candidate list.
write_era(j, era) == BatchPut(journal_key(era), CandidateHashes(j, era))

\* MetaDB::new: the journal a new store loads.
New(d, genesis_hash) ==
  LET raw == DbGet(d, base_key)
      base == IF raw = None THEN <<0, genesis_hash>> ELSE DecodeBase(raw[1])
  IN read_from(d, base)

\* ----------------------------------------------------------------- actions
Init ==
  /\ db = [k \in DbKeys |-> None]
  /\ journal = New(db, Genesis).journal
  /\ overlay = [f \in Stores |-> EmptyMap]
  /\ batch = [f \in Stores |-> <<>>]
  /\ used = {}
  /\ discarded = {}
  /\ pending = [f \in Stores |-> EmptyMap]
  /\ calls = 0

\* MetaDB::set.
Set(f, address, meta) ==
  /\ overlay' = [overlay EXCEPT ![f] = MapPut(@, address, Some(meta))]
  /\ UNCHANGED <<db, journal, batch>>

\* MetaDB::remove.
Remove(f, address) ==
  /\ overlay' = [overlay EXCEPT ![f] = MapPut(@, address, None)]
  /\ UNCHANGED <<db, journal, batch>>

\* journal_under without its update of the index.
JournalledUnderNoIndex(j, changes, now, id, parent_id) ==
  [j EXCEPT
     !.entries = MapPut(@, <<now, id>>, [parent |-> parent_id, entries |-> changes])]

\* The journal after journal_under.
JournalledUnder(j, changes, now, id, parent_id) ==
  [j EXCEPT
     !.modifications = InsertModifications(@, DOMAIN changes, <<now, id>>),
     !.entries = MapPut(@, <<now, id>>, [parent |-> parent_id, entries |-> changes])]

\* MetaDB::journal_under.
JournalUnder(f, now, id, parent_id) ==
  LET j_entry == [parent |-> parent_id, entries |-> overlay[f]]
      j2 == JournalledUnder(journal, overlay[f], now, id, parent_id)
  IN /\ overlay' = [overlay EXCEPT ![f] = EmptyMap]
     /\ journal' = j2
     /\ batch' = [batch EXCEPT ![f] =
                    @ \o <<BatchPut(id_key(id), EncodeEntry(j_entry)), write_era(j2, now)>>]
     /\ UNCHANGED db

\* The puts and deletes that apply one delta to the flat state.
ApplyChanges(changes) ==
  LET addrs == Ascending(DOMAIN changes)
  IN [i \in 1..Len(addrs) |->
        IF changes[addrs[i]] # None
          THEN BatchPut(addr_key(addrs[i]), EncodeMeta(changes[addrs[i]][1]))
          ELSE BatchDelete(addr_key(addrs[i]))]

\* mark_canonical without its test of the candidate: every delta is applied.
IsCanonicalAlways(id, canon_id) == TRUE

\* Whether mark_canonical applies the changes of candidate id.
IsCanonical(id, canon_id) == id = canon_id

\* The loop of mark_canonical over the era's candidates: [journal, ops].
RECURSIVE MarkCandidates(_, _, _, _, _)
MarkCandidates(ids, end_era, canon_id, j, ops) ==
  IF ids = <<>> THEN [journal |-> j, ops |-> ops]
  ELSE LET id == Head(ids)
           entry == j.entries[<<end_era, id>>]
           j2 == [j EXCEPT
                    !.entries = MapRemove(@, <<end_era, id>>),
                    !.modifications =
                       RemoveModifications(@, DOMAIN entry.entries, <<end_era, id>>)]
           ops2 == ops \o <<BatchDelete(id_key(id))>>
                     \o (IF IsCanonical(id, canon_id)
                           THEN ApplyChanges(entry.entries) ELSE <<>>)
       IN MarkCandidates(Tail(ids), end_era, canon_id, j2, ops2)

\* MetaDB::mark_canonical.
MarkCanonical(f, end_era, canon_id) ==
  LET r == MarkCandidates(CandidateHashes(journal, end_era), end_era, canon_id,
                          journal, <<>>)
      j2 == [r.journal EXCEPT !.canon_base = <<end_era, canon_id>>]
  IN /\ journal' = j2
     /\ batch' = [batch EXCEPT ![f] =
                    @ \o r.ops \o <<BatchPut(base_key, EncodeBase(j2.canon_base)),
                                    BatchDelete(journal_key(end_era))>>]
     /\ UNCHANGED <<db, overlay>>

\* The caller's db.write(batch).
Commit(f) ==
  /\ batch[f] # <<>>
  /\ db' = DbWrite(db, batch[f])
  /\ batch' = [batch EXCEPT ![f] = <<>>]
  /\ UNCHANGED <<journal, overlay>>

\* The process ends and MetaDB::new opens the same database again: unwritten
\* batches and overlays are gone.
Reopen ==
  /\ LET r == New(db, Genesis)
     IN r.ok /\ journal' = r.journal
  /\ overlay' = [f \in Stores |-> EmptyMap]
  /\ batch' = [f \in Stores |-> <<>>]
  /\ UNCHANGED db

\* ------------------------------------------------------------------- get
\* The results of get: Ok(Option<AccountMeta>), the two journal errors, and
\* a panic of one of its two assertions.
\* from names where an Ok value was read: the overlay, the database, or the
\* journal entry at (era, id).
Result(kind, value, from, era, id) ==
  [kind |-> kind, value |-> value, from |-> from, era |-> era, id |-> id]
Ok(value, from) == Result("Ok", value, from, 0, 0)
OkEntry(value, era, id) == Result("Ok", value, "journal", era, id)
MissingJournalEntry(era, id) == Result("MissingJournalEntry", None, "error", era, id)
StatePruned(era, id) == Result("StatePruned", None, "error", era, id)
WrongEntry(era, id) == Result("PanicWrongEntry", None, "error", era, id)
IncorrectIndex(era, id) == Result("PanicIncorrectIndex", None, "error", era, id)

\* The closure get_from_db: the flat state's record of an address, decoded.
get_from_db(d, address) ==
  LET raw == DbGet(d, addr_key(address))
  IN Ok(IF raw = None THEN None ELSE Some(DecodeMeta(raw[1])), "db")

\* The inner loop of get: from (era, id), whose entry the journal holds, follow
\* parents down to mod_era.  found is FALSE at a position without an entry.
RECURSIVE WalkDown(_, _, _, _)
WalkDown(j, era, id, mod_era) ==
  IF era > mod_era
    THEN LET parent == j.entries[<<era, id>>].parent
         IN IF <<era - 1, parent>> \in DOMAIN j.entries
              THEN WalkDown(j, era - 1, parent, mod_era)
              ELSE [found |-> FALSE, era |-> era - 1, id |-> parent]
    ELSE [found |-> TRUE, era |-> era, id |-> id]

\* BTreeSet<(u64, H256)> in its own order, lowest pair first.
RECURSIVE Forward(_)
Forward(S) ==
  IF S = {} THEN <<>>
  ELSE LET lo == CHOOSE p \in S : \A q \in S : q = p \/ PairLess(p, q)
       IN <<lo>> \o Forward(S \ {lo})

\* get without the rev() of its iterator.
ModificationOrderForward(j, address) ==
  IF address \in DOMAIN j.modifications
    THEN Forward(j.modifications[address]) ELSE <<>>

\* The order in which get visits the modifications of an address.
ModificationOrder(j, address) ==
  IF address \in DOMAIN j.modifications
    THEN Descending(j.modifications[address]) ELSE <<>>

\* The check that follows the loop over the modifications.
AfterModifications(j, d, address, era, id) ==
  IF era <= j.canon_base[1] /\ id # j.canon_base[2]
    THEN StatePruned(era, id)
    ELSE get_from_db(d, address)

\* The loop of get without the walk along the parents: the newest
\* modification at or below the block's era answers, whatever its branch.
RECURSIVE ModificationsAnyBranch(_, _, _, _, _, _)
ModificationsAnyBranch(j, d, address, mods, era, id) ==
  IF mods = <<>> \/ era <= j.canon_base[1]
    THEN AfterModifications(j, d, address, era, id)
    ELSE IF Head(mods)[1] > era
      THEN ModificationsAnyBranch(j, d, address, Tail(mods), era, id)
    ELSE OkEntry(j.entries[Head(mods)].entries[address], Head(mods)[1], Head(mods)[2])

\* The loop of get over the modifications left to visit, from (era, id).
RECURSIVE Modifications(_, _, _, _, _, _)
Modifications(j, d, address, mods, era, id) ==
  IF mods = <<>> \/ era <= j.canon_base[1]
    THEN AfterModifications(j, d, address, era, id)
    ELSE LET mod_era == Head(mods)[1]
             mod_id == Head(mods)[2]
             w == WalkDown(j, era, id, mod_era)
         IN IF ~w.found THEN MissingJournalEntry(w.era, w.id)
            ELSE IF mod_id # w.id
              THEN Modifications(j, d, address, Tail(mods), w.era, w.id)
            ELSE IF w.era # mod_era THEN WrongEntry(w.era, w.id)
            ELSE IF address \notin DOMAIN j.entries[<<w.era, w.id>>].entries
              THEN IncorrectIndex(w.era, w.id)
            ELSE OkEntry(j.entries[<<w.era, w.id>>].entries[address], w.era, w.id)

\* get without the fast path for a query of the base.
GetJournalledNoFastPath(j, d, address, at) ==
  IF at \notin DOMAIN j.entries THEN MissingJournalEntry(at[1], at[2])
  ELSE Modifications(j, d, address, ModificationOrder(j, address), at[1], at[2])

\* get answering StatePruned for a block the journal does not hold.
GetJournalledAbsentPruned(j, d, address, at) ==
  IF at = j.canon_base THEN get_from_db(d, address)
  ELSE IF at \notin DOMAIN j.entries THEN StatePruned(at[1], at[2])
  ELSE Modifications(j, d, address, ModificationOrder(j, address), at[1], at[2])

\* get, past the overlay: the base fast path, then the journal.
GetJournalled(j, d, address, at) ==
  IF at = j.canon_base THEN get_from_db(d, address)
  ELSE IF at \notin DOMAIN j.entries THEN MissingJournalEntry(at[1], at[2])
  ELSE Modifications(j, d, address, ModificationOrder(j, address), at[1], at[2])

\* get with the base fast path taken before the overlay is asked.
GetWithBaseFirst(o, j, d, address, at) ==
  IF at = j.canon_base THEN get_from_db(d, address)
  ELSE IF address \in DOMAIN o THEN Ok(o[address], "overlay")
  ELSE GetJournalled(j, d, address, at)

\* MetaDB::get on a store with overlay o.
GetWith(o, j, d, address, at) ==
  IF address \in DOMAIN o THEN Ok(o[address], "overlay")
  ELSE GetJournalled(j, d, address, at)

\* MetaDB::get through store f in the current state.
Get(f, address, at) == GetWith(overlay[f], journal, db, address, at)

\* ------------------------------------------------------------ the callers
\* The siblings of canon_id that mark_canonical(end_era, canon_id) drops.
Siblings(end_era, canon_id) ==
  {<<end_era, h>> : h \in {x \in Hashes : <<end_era, x>> \in DOMAIN journal.entries
                                           /\ x # canon_id}}

\* The hash of the next new block: hashes are handed out in ascending order.
IsNextHash(id) ==
  /\ id \notin used \cup {Genesis}
  /\ \A x \in Hashes : x < id => x \in used \cup {Genesis}

\* A block import pipeline journals a block it has not journalled before, one
\* era above its parent, which is the canonical base or an entry of the
\* journal, into a transaction of its own, which it writes before its next
\* call.
Seal(f) ==
  /\ batch[f] = <<>>
  /\ \E id \in Hashes :
        /\ IsNextHash(id)
        /\ \E now \in Eras, parent_id \in Hashes :
              /\ now >= 1
              /\ \/ <<now - 1, parent_id>> = journal.canon_base
                 \/ /\ <<now - 1, parent_id>> \in DOMAIN journal.entries
                    /\ now - 1 > journal.canon_base[1]
              /\ JournalUnder(f, now, id, parent_id)
        /\ used' = used \cup {id}
  /\ pending' = [pending EXCEPT ![f] = EmptyMap]
  /\ UNCHANGED <<discarded, calls>>

\* The pipeline makes a candidate of the era above the base canonical.
Finalize(f) ==
  /\ batch[f] = <<>>
  /\ \E canon_id \in Hashes :
        LET end_era == journal.canon_base[1] + 1
        IN /\ <<end_era, canon_id>> \in DOMAIN journal.entries
           /\ MarkCanonical(f, end_era, canon_id)
           /\ discarded' = discarded \cup Siblings(end_era, canon_id)
  /\ UNCHANGED <<used, pending, calls>>

\* The changes pending in the overlays and recorded by the journal's entries.
RECURSIVE EntryChanges(_)
EntryChanges(keys) ==
  IF keys = {} THEN 0
  ELSE LET k == CHOOSE x \in keys : TRUE
       IN Cardinality(DOMAIN journal.entries[k].entries) + EntryChanges(keys \ {k})

Changes ==
  EntryChanges(DOMAIN journal.entries)
    + Cardinality(DOMAIN overlay[1]) + Cardinality(DOMAIN overlay[2])

WriteUpTo(f, max) ==
  /\ batch[f] = <<>>
  /\ \E address \in Address :
        /\ address \in DOMAIN overlay[f] \/ Changes < max
        /\ \/ \E meta \in Metas :
                /\ Set(f, address, meta)
                /\ pending' = [pending EXCEPT ![f] = MapPut(@, address, Some(meta))]
           \/ /\ Remove(f, address)
              /\ pending' = [pending EXCEPT ![f] = MapPut(@, address, None)]

Write(f) == WriteUpTo(f, MaxChanges) /\ UNCHANGED <<used, discarded, calls>>

Flush(f) == Commit(f) /\ UNCHANGED <<used, discarded, pending, calls>>

Restart ==
  /\ Reopen
  /\ discarded' = {}
  /\ pending' = [f \in Stores |-> EmptyMap]
  /\ UNCHANGED <<used, calls>>

\* One store, driven by the pipeline; the other store only reads.
Next ==
  \/ Write(1)
  \/ Seal(1)
  \/ Finalize(1)
  \/ Flush(1)
  \/ Restart

Spec == Init /\ [][Next]_vars

\* A caller that journals and marks canonical with any arguments.
AnyHashes == 0..MaxAnyId

WriteAny(f) == WriteUpTo(f, MaxAnyChanges) /\ UNCHANGED <<used, discarded, calls>>

SealAny(f) ==
  /\ calls < MaxCalls
  /\ batch[f] = <<>>
  /\ \E now \in Eras, id \in AnyHashes, parent_id \in AnyHashes :
        JournalUnder(f, now, id, parent_id)
  /\ pending' = [pending EXCEPT ![f] = EmptyMap]
  /\ calls' = calls + 1
  /\ UNCHANGED <<used, discarded>>

FinalizeAny(f) ==
  /\ calls < MaxCalls
  /\ batch[f] = <<>>
  /\ \E end_era \in Eras, canon_id \in AnyHashes :
        MarkCanonical(f, end_era, canon_id)
  /\ calls' = calls + 1
  /\ UNCHANGED <<used, discarded, pending>>

NextAny ==
  \/ WriteAny(1)
  \/ SealAny(1)
  \/ FinalizeAny(1)
  \/ Flush(1)
  \/ Restart

SpecAny == Init /\ [][NextAny]_vars

\* ---------------------------------------------------------------- claims
\* Every block a caller can name.
Targets == Eras \X Hashes

\* One store for each distinct overlay: get reads nothing else of a store, so
\* stores with equal overlays answer alike.
Readers ==
  {CHOOSE f \in Stores : overlay[f] = o : o \in {overlay[g] : g \in Stores}}

\* Whether the parent chain of the entry at x leads, through entries at
\* consecutive lower eras, to the canonical base.
RECURSIVE ChainToBase(_)
ChainToBase(x) ==
  /\ x \in DOMAIN journal.entries
  /\ x[1] > journal.canon_base[1]
  /\ LET below == <<x[1] - 1, journal.entries[x].parent>>
     IN below = journal.canon_base
          \/ (below[1] > journal.canon_base[1] /\ ChainToBase(below))

\* A direct lookup of an address in the flat state.
Lookup(address) ==
  IF db[addr_key(address)] = None THEN None
  ELSE Some(DecodeMeta(db[addr_key(address)][1]))

\* The reference for get on a chain to the base: scan every delta from x
\* down, and read the flat state when none of them holds the address.
RECURSIVE ScanChain(_, _)
ScanChain(address, x) ==
  IF address \in DOMAIN journal.entries[x].entries
    THEN journal.entries[x].entries[address]
  ELSE IF x[1] - 1 = journal.canon_base[1] THEN Lookup(address)
  ELSE ScanChain(address, <<x[1] - 1, journal.entries[x].parent>>)

\* C1: for an address with no pending change and a journalled block whose
\* parent chain leads to the canonical base, get returns the change of the
\* nearest block on that chain that changed the address, and the flat state's
\* value when none did: what a scan of every delta on the chain returns.
C1_NearestWrite ==
  \A f \in Readers, address \in Address, x \in DOMAIN journal.entries :
     (address \notin DOMAIN overlay[f] /\ ChainToBase(x))
       => LET r == Get(f, address, x)
          IN r.kind = "Ok" /\ r.value = ScanChain(address, x)

\* A block two eras above the base that leaves an address alone, whose parent
\* changed it, while a sibling of the parent changed it differently.
C1_Witness ==
  \E x \in DOMAIN journal.entries, address \in Address :
     LET p == <<x[1] - 1, journal.entries[x].parent>>
     IN /\ ChainToBase(x)
        /\ address \notin DOMAIN overlay[1]
        /\ address \notin DOMAIN journal.entries[x].entries
        /\ p \in DOMAIN journal.entries
        /\ address \in DOMAIN journal.entries[p].entries
        /\ \E s \in DOMAIN journal.entries :
              /\ s[1] = p[1] /\ s # p
              /\ address \in DOMAIN journal.entries[s].entries
              /\ journal.entries[s].entries[address] # journal.entries[p].entries[address]
        /\ Get(1, address, x).value = journal.entries[p].entries[address]

\* The blocks on the parent chain of x, x included, as far as the journal
\* holds their entries.
RECURSIVE Ancestry(_)
Ancestry(x) ==
  IF x \notin DOMAIN journal.entries THEN {}
  ELSE {x} \cup (IF x[1] = 0 THEN {}
                 ELSE Ancestry(<<x[1] - 1, journal.entries[x].parent>>))

\* C2: two candidates of one era that both changed an address each answer
\* with their own change, and whatever get returns from the journal for a
\* block is a change recorded by that block or by one on its parent chain.
C2_ForkIsolation ==
  \A f \in Readers, address \in Address :
     address \notin DOMAIN overlay[f] =>
       /\ \A a \in DOMAIN journal.entries :
             (/\ address \in DOMAIN journal.entries[a].entries
              /\ \E b \in DOMAIN journal.entries :
                    /\ a[1] = b[1] /\ a # b
                    /\ address \in DOMAIN journal.entries[b].entries)
               => Get(f, address, a) = OkEntry(journal.entries[a].entries[address], a[1], a[2])
       /\ \A x \in Targets :
             LET r == Get(f, address, x)
             IN r.from = "journal"
                  => /\ <<r.era, r.id>> \in Ancestry(x)
                     /\ address \in DOMAIN journal.entries[<<r.era, r.id>>].entries
                     /\ r.value = journal.entries[<<r.era, r.id>>].entries[address]

\* Two candidates of one era with different changes of one address, and a
\* child of one of them that answers with its parent's change.
C2_Witness ==
  \E a \in DOMAIN journal.entries, b \in DOMAIN journal.entries, address \in Address :
     /\ a[1] = b[1] /\ a # b
     /\ address \notin DOMAIN overlay[1]
     /\ address \in DOMAIN journal.entries[a].entries
     /\ address \in DOMAIN journal.entries[b].entries
     /\ journal.entries[a].entries[address] # journal.entries[b].entries[address]
     /\ Get(1, address, a).value # Get(1, address, b).value
     /\ \E x \in DOMAIN journal.entries :
           /\ x[1] = a[1] + 1
           /\ journal.entries[x].parent = a[2]
           /\ Get(1, address, x) = OkEntry(journal.entries[a].entries[address], a[1], a[2])

\* C3: after mark_canonical(H, C), get for a sibling of C that was open at
\* H, and an address with no pending change, fails with StatePruned.
C3_SiblingPruned ==
  \A f \in Stores, address \in Address, s \in discarded :
     address \notin DOMAIN overlay[f] => Get(f, address, s).kind = "StatePruned"

\* Whether the parent references of the entry at x lead to a sibling that
\* mark_canonical dropped.
RECURSIVE OnDiscardedBranch(_)
OnDiscardedBranch(x) ==
  /\ x \in DOMAIN journal.entries
  /\ x[1] > 0
  /\ LET below == <<x[1] - 1, journal.entries[x].parent>>
     IN below \in discarded \/ OnDiscardedBranch(below)

\* C4: get for a block that is still in the journal and descends from a
\* sibling dropped by mark_canonical fails with StatePruned; it never answers
\* from the flat state.
C4_DiscardedBranchPruned ==
  \A f \in Stores, address \in Address, x \in DOMAIN journal.entries :
     (address \notin DOMAIN overlay[f] /\ OnDiscardedBranch(x))
       => Get(f, address, x).kind = "StatePruned"

\* C5: when mark_canonical(H, C) takes a journalled block C and its batch is
\* written, the flat state holds, for every address of C's delta, the record
\* set or nothing for a removal; every other address, one that only a sibling
\* changed included, keeps the value it had.
C5_FinalizeAppliesCanonicalDelta ==
  [][\A f \in Stores, canon_id \in Hashes :
       LET end_era == journal.canon_base[1] + 1
           c == <<end_era, canon_id>>
       IN (/\ c \in DOMAIN journal.entries
           /\ batch[f] = <<>>
           /\ MarkCanonical(f, end_era, canon_id))
            => LET delta == journal.entries[c].entries
                   written == DbWrite(db, batch'[f])
               IN \A address \in Address :
                    /\ address \in DOMAIN delta
                         => get_from_db(written, address).value = delta[address]
                    /\ address \notin DOMAIN delta
                         => written[addr_key(address)] = db[addr_key(address)]]_vars

\* The batch of a mark_canonical that dropped a sibling has been written, and
\* the flat state holds a record.
C5_Witness ==
  /\ batch[1] = <<>>
  /\ discarded # {}
  /\ db[base_key] = Some(EncodeBase(journal.canon_base))
  /\ journal.canon_base[1] >= 1
  /\ \E address \in Address : Lookup(address) # None
  /\ \E address \in Address : Lookup(address) = None

\* C6: once every batch is written, a store opened on the same database
\* loads a journal equal to the one in memory: entries, index and base.
C6_PersistenceRoundTrip ==
  (\A f \in Stores : batch[f] = <<>>)
    => /\ New(db, Genesis).ok
       /\ New(db, Genesis).journal = journal

\* All batches written, after a mark_canonical, with a fork above the base
\* and a non-empty index.
C6_Witness ==
  /\ \A f \in Stores : batch[f] = <<>>
  /\ journal.canon_base[1] >= 1
  /\ DOMAIN journal.modifications # {}
  /\ \E a \in DOMAIN journal.entries, b \in DOMAIN journal.entries :
        a[1] = b[1] /\ a # b

\* C7: from a set or remove of an address to the store's next journal_under,
\* get of that address returns the latest pending write for every block,
\* whatever the journal and the database hold.
C7_OverlayPrecedence ==
  \A f \in Stores, address \in Address :
     address \in DOMAIN pending[f]
       => \A x \in Targets :
             LET r == Get(f, address, x)
             IN r.kind = "Ok" /\ r.value = pending[f][address]

\* A pending removal of an address that the flat state holds and a journal
\* entry sets.
C7_Witness ==
  \E address \in Address :
     /\ address \in DOMAIN pending[1]
     /\ pending[1][address] = None
     /\ Lookup(address) # None
     /\ \E x \in DOMAIN journal.entries :
           /\ address \in DOMAIN journal.entries[x].entries
           /\ journal.entries[x].entries[address] # None
           /\ Get(1, address, x).value = None

\* C8 as stated: get at the canonical base equals a direct lookup in the flat
\* state, for every address.
C8_BaseFastPathAnyKey ==
  \A f \in Readers, address \in Address :
     LET r == Get(f, address, journal.canon_base)
     IN r.kind = "Ok" /\ r.value = Lookup(address)

\* C8, amended: get at the canonical base equals a direct lookup in the flat
\* state for every address without a pending change in the store asked.
C8_BaseFastPath ==
  \A f \in Readers, address \in Address :
     address \notin DOMAIN overlay[f]
       => LET r == Get(f, address, journal.canon_base)
          IN r.kind = "Ok" /\ r.value = Lookup(address)

\* A base above genesis, and an address that an open delta and the index
\* hold with a change that differs from the flat state's value.
C8_Witness ==
  \E address \in Address, x \in DOMAIN journal.entries :
     /\ journal.canon_base[1] >= 1
     /\ address \notin DOMAIN overlay[1]
     /\ address \in DOMAIN journal.entries[x].entries
     /\ address \in DOMAIN journal.modifications
     /\ x \in journal.modifications[address]
     /\ Lookup(address) # None
     /\ journal.entries[x].entries[address] # Lookup(address)
     /\ Get(1, address, journal.canon_base).value = Lookup(address)

\* C9: (era, id) is in the index of an address exactly when the journal holds
\* an entry at (era, id) whose delta changes the address.
C9_IndexConsistent ==
  \A address \in Address, x \in Targets :
     (address \in DOMAIN journal.modifications /\ x \in journal.modifications[address])
       <=> (x \in DOMAIN journal.entries /\ address \in DOMAIN journal.entries[x].entries)

\* C10: every entry above the base has its parent in the journal one era
\* below, or is a child of the canonical base.
C10_ParentPresent ==
  \A x \in DOMAIN journal.entries :
     x[1] > journal.canon_base[1]
       => LET below == <<x[1] - 1, journal.entries[x].parent>>
          IN below \in DOMAIN journal.entries \/ below = journal.canon_base

\* C11: mark_canonical(H, C), whatever H and C are, never leaves the
\* canonical base at a lower era than it was before the call.
C11_BaseMonotonic ==
  [][\A f \in Stores, end_era \in Eras, canon_id \in AnyHashes :
       MarkCanonical(f, end_era, canon_id)
         => journal'.canon_base[1] >= journal.canon_base[1]]_vars

\* C12: when mark_canonical(H, C) returns, with the base advanced to (H, C)
\* and its batch not yet written, the flat state already holds every change
\* of C's delta, so a get of the new base through any store that shares the
\* journal answers with C's change.
C12_DurableReflectsBase ==
  [][\A f \in Stores, canon_id \in Hashes :
       LET end_era == journal.canon_base[1] + 1
           c == <<end_era, canon_id>>
       IN (/\ c \in DOMAIN journal.entries
           /\ batch[f] = <<>>
           /\ MarkCanonical(f, end_era, canon_id))
            => \A address \in DOMAIN journal.entries[c].entries, g \in Stores :
                 address \notin DOMAIN overlay'[g]
                   => GetWith(overlay'[g], journal', db', address, journal'.canon_base)
                        = Ok(journal.entries[c].entries[address], "db")]_vars

\* The lowest block of the parent chain of x that the journal holds.
Lowest(x) == CHOOSE c \in Ancestry(x) : \A d \in Ancestry(x) : c[1] <= d[1]

\* Whether get(address, x) walks off the journal: x has an entry, the lowest
\* entry c of its chain lies above the base and its parent position holds no
\* entry, the address was modified at or below that position, and no
\* modification above it is met on the way down.
WalksOff(address, x) ==
  /\ x # journal.canon_base
  /\ x \in DOMAIN journal.entries
  /\ address \in DOMAIN journal.modifications
  /\ LET c == Lowest(x)
     IN /\ c[1] > journal.canon_base[1]
        /\ <<c[1] - 1, journal.entries[c].parent>> \notin DOMAIN journal.entries
        /\ \E m \in journal.modifications[address] : m[1] < c[1]
        /\ \A m \in journal.modifications[address] :
              m[1] >= c[1]
                => IF m[1] > x[1] THEN m[2] # x[2] ELSE m \notin Ancestry(x)

\* C13: for an address with no pending change, get for a block that is not
\* the base and has no entry fails with MissingJournalEntry of that block,
\* and a walk that follows a parent to a position without an entry fails
\* with MissingJournalEntry of that position.
C13_MissingJournalEntry ==
  \A f \in Readers, address \in Address :
     address \notin DOMAIN overlay[f] =>
       /\ \A x \in Targets :
             (x # journal.canon_base /\ x \notin DOMAIN journal.entries)
               => Get(f, address, x) = MissingJournalEntry(x[1], x[2])
       /\ \A x \in DOMAIN journal.entries :
             WalksOff(address, x)
               => LET c == Lowest(x)
                  IN Get(f, address, x)
                       = MissingJournalEntry(c[1] - 1, journal.entries[c].parent)

\* A block whose parent has an entry and whose grandparent has none, with an
\* address modified at the grandparent's era, while the flat state and an
\* absent block are asked too.
C13_Witness ==
  \E address \in Address, x \in DOMAIN journal.entries :
     /\ address \notin DOMAIN overlay[1]
     /\ WalksOff(address, x)
     /\ Lowest(x) # x
     /\ Get(1, address, x).kind = "MissingJournalEntry"
     /\ \E y \in Targets :
           /\ y # journal.canon_base /\ y \notin DOMAIN journal.entries
           /\ Get(1, address, y).kind = "MissingJournalEntry"

\* The index set of an address: empty for an address the index does not hold.
IndexOf(j, address) ==
  IF address \in DOMAIN j.modifications THEN j.modifications[address] ELSE {}

\* The elements of a sequence.
Range(seq) == {seq[i] : i \in 1..Len(seq)}

\* C14: journal_under(now, id, parent) empties the store's overlay and puts at
\* (now, id) a delta with that parent and the overlay's former content; it
\* adds (now, id) to the index of exactly the delta's addresses, leaves the
\* base, every other delta, the other overlays and the database alone, and
\* stages two puts and no more: the delta under the id's key and the ids of
\* era now under the era's key.
C14_SealEffect ==
  [][\A f \in Stores, now \in Eras, id \in AnyHashes, parent_id \in AnyHashes :
       (batch'[f] # batch[f] /\ JournalUnder(f, now, id, parent_id))
         => LET delta == overlay[f]
                x == <<now, id>>
                staged == SubSeq(batch'[f], Len(batch[f]) + 1, Len(batch'[f]))
            IN /\ overlay'[f] = EmptyMap
               /\ \A g \in Stores \ {f} : overlay'[g] = overlay[g] /\ batch'[g] = batch[g]
               /\ DOMAIN journal'.entries = DOMAIN journal.entries \cup {x}
               /\ journal'.entries[x].parent = parent_id
               /\ journal'.entries[x].entries = delta
               /\ \A y \in DOMAIN journal.entries \ {x} :
                     journal'.entries[y] = journal.entries[y]
               /\ journal'.canon_base = journal.canon_base
               /\ \A address \in Address :
                     /\ address \in DOMAIN delta
                          => IndexOf(journal', address) = IndexOf(journal, address) \cup {x}
                     /\ address \notin DOMAIN delta
                          => IndexOf(journal', address) = IndexOf(journal, address)
               /\ db' = db
               /\ Len(staged) = 2
               /\ staged[1][1] = "put" /\ staged[1][2] = id_key(id)
               /\ DecodeEntry(staged[1][3]) = [parent |-> parent_id, entries |-> delta]
               /\ staged[2][1] = "put" /\ staged[2][2] = journal_key(now)
               /\ Range(staged[2][3]) = {h \in Hashes : <<now, h>> \in DOMAIN journal'.entries}
               /\ Len(staged[2][3]) = Cardinality(Range(staged[2][3]))]_vars

\* A journal_under of a store with a pending change has just returned: its
\* batch is not written, the delta holds the change, and the journal holds
\* another entry as well.
C14_Witness ==
  \E x \in DOMAIN journal.entries, y \in DOMAIN journal.entries :
     /\ x # y
     /\ overlay[1] = EmptyMap
     /\ Len(batch[1]) = 2
     /\ batch[1][1] = BatchPut(id_key(x[2]), EncodeEntry(journal.entries[x]))
     /\ journal.entries[x].entries # EmptyMap
     /\ \E address \in Address : x \in IndexOf(journal, address)

\* C15: after mark_canonical(H, C) the journal holds no entry of era H, no
\* index set holds a pair of era H, no address has an empty index set, and
\* the base is (H, C); the entries of other eras and their index pairs are as
\* they were.
C15_FinalizeRemovesEra ==
  [][\A f \in Stores, end_era \in Eras, canon_id \in Hashes :
       (batch'[f] # batch[f] /\ MarkCanonical(f, end_era, canon_id))
         => /\ \A x \in DOMAIN journal'.entries : x[1] # end_era
            /\ \A address \in DOMAIN journal'.modifications :
                  /\ journal'.modifications[address] # {}
                  /\ \A m \in journal'.modifications[address] : m[1] # end_era
            /\ journal'.canon_base = <<end_era, canon_id>>
            /\ DOMAIN journal'.entries = {x \in DOMAIN journal.entries : x[1] # end_era}
            /\ \A x \in DOMAIN journal'.entries : journal'.entries[x] = journal.entries[x]
            /\ \A address \in Address :
                  {m \in IndexOf(journal', address) : m[1] # end_era}
                    = {m \in IndexOf(journal, address) : m[1] # end_era}]_vars

\* The base a database persists: its marker, or (0, genesis) without one.
PersistedBase ==
  IF db[base_key] = None THEN <<0, Genesis>>
  ELSE <<db[base_key][1][1], db[base_key][1][2]>>

\* The eras above the persisted base up to, not including, the first era
\* for which the database holds no list of candidates.
LoadedEras ==
  {e \in Eras : /\ e > PersistedBase[1]
                /\ \A e2 \in (PersistedBase[1] + 1)..e : db[journal_key(e2)] # None}

\* The (era, id) pairs the lists of those eras name.
ListedCandidates ==
  {x \in Targets : x[1] \in LoadedEras /\ x[2] \in Range(db[journal_key(x[1])][1])}

\* C16: a store constructed over a database that holds the delta of every
\* candidate it lists takes the persisted base, or (0, genesis) without a
\* marker, and loads exactly the persisted deltas of the candidates listed
\* for the eras above the base up to the first era without a list; its index
\* holds (era, id) for an address exactly when the loaded delta at (era, id)
\* changes the address.
C16_LoadMirrorsDurable ==
  (\A x \in ListedCandidates : db[id_key(x[2])] # None)
    => LET r == New(db, Genesis)
           j == r.journal
       IN /\ r.ok
          /\ j.canon_base = PersistedBase
          /\ DOMAIN j.entries = ListedCandidates
          /\ \A x \in DOMAIN j.entries :
                j.entries[x] = DecodeEntry(db[id_key(x[2])][1])
          /\ \A address \in Address, x \in Targets :
                x \in IndexOf(j, address)
                  <=> (x \in DOMAIN j.entries /\ address \in DOMAIN j.entries[x].entries)

\* A database with a list for the base's era and for the era above it, whose
\* candidate changed an address, and none for the era after: the load takes
\* the candidate of the era above the base alone.
C16_Witness ==
  LET j == New(db, Genesis).journal
  IN /\ db[journal_key(PersistedBase[1])] # None
     /\ LoadedEras = {PersistedBase[1] + 1}
     /\ DOMAIN j.modifications # {}
     /\ DOMAIN j.entries # {}
     /\ \A x \in DOMAIN j.entries : x[1] = PersistedBase[1] + 1

\* C17: in no journal state and for no get does the walk meet a modification
\* of the address with the id of its current block at another era, or at an
\* entry whose delta lacks the address: neither assertion of get fails.
C17_AssertionsNeverFire ==
  \A f \in Readers, address \in Address, x \in Targets :
     Get(f, address, x).kind \notin {"PanicWrongEntry", "PanicIncorrectIndex"}

\* Two stores that share the journal, each driven by a pipeline with a
\* transaction of its own; the transactions are written in any order.
NextShared ==
  \/ \E f \in Stores : Write(f)
  \/ \E f \in Stores : Seal(f)
  \/ \E f \in Stores : Finalize(f)
  \/ \E f \in Stores : Flush(f)

SpecShared == Init /\ [][NextShared]_vars

\* C18: once every batch is written, the database lists, for every era with
\* entries in the journal, exactly the ids of that era's entries, and holds
\* for each of them a delta equal to the entry; also when two stores that
\* share the journal journal a candidate of one era each into its own batch
\* and the batches are written in either order.
C18_ControlKeysMirrorJournal ==
  (\A f \in Stores : batch[f] = <<>>)
    => \A x \in DOMAIN journal.entries :
          /\ db[journal_key(x[1])] # None
          /\ Range(db[journal_key(x[1])][1])
               = {h \in Hashes : <<x[1], h>> \in DOMAIN journal.entries}
          /\ db[id_key(x[2])] # None
          /\ DecodeEntry(db[id_key(x[2])][1]) = journal.entries[x]

\* C19: get finishes, for every journal state and every target, with a
\* value, with 'does not exist', or with one of its errors, never with a
\* panic, and the position its walk ends at lies at or below the target's
\* era and at or above era 0.  (That get leaves the journal, the overlay and
\* the database alone is how Get is defined: an operator over the state, with
\* no next state.)
C19_GetFinishesWithResult ==
  \A f \in Readers, address \in Address, x \in Targets :
     LET r == Get(f, address, x)
     IN /\ r.kind \in {"Ok", "MissingJournalEntry", "StatePruned"}
        /\ r.from \in {"journal", "error"} => r.era \in 0..x[1]

=============================================================================
